---------------------------- MODULE Spec2Model ----------------------------
(***************************************************************************)
(* Model of Scammer_Tracker.py: a mailbox scanner that pages through the   *)
(* messages of a mailbox, classifies each one with two keyword matchers    *)
(* and writes the matching messages to hits.csv.                           *)
(*                                                                         *)
(* Python strings are modelled as sequences of one-character strings, so   *)
(* that regular-expression search, str.replace, str.strip and the csv      *)
(* writer are computed character by character.                             *)
(***************************************************************************)
EXTENDS Integers, Sequences, FiniteSets, TLC

(***************************************************************************)
(* Bounds of the model (not program constants).                            *)
(***************************************************************************)
\* longest subject, in tokens, drawn for the classifier
MaxTokens == 3
\* most pages the mailbox API serves in one run
MaxPages == 2
\* most HTTP 429 responses in one run
Max429 == 2
\* most match records handed to the csv writer on its own
MaxRecords == 2

(***************************************************************************)
(* Python values.                                                          *)
(***************************************************************************)
\* None where a string is expected: a one-element sequence whose element is
\* not a character, so that it compares with every string and equals none.
None == <<"None">>

\* x or d, for a string (or None) x: None and "" are falsy.
OrElse(x, d) == IF x = None \/ x = <<>> THEN d ELSE x

UpperCase ==
    <<"A","B","C","D","E","F","G","H","I","J","K","L","M",
      "N","O","P","Q","R","S","T","U","V","W","X","Y","Z">>

LowerCase ==
    <<"a","b","c","d","e","f","g","h","i","j","k","l","m",
      "n","o","p","q","r","s","t","u","v","w","x","y","z">>

Digits == {"0","1","2","3","4","5","6","7","8","9"}

Range(s) == {s[i] : i \in DOMAIN s}

\* the case folding re.IGNORECASE applies to the ASCII letters
ToLower ==
    [c \in Range(UpperCase) |->
        LowerCase[CHOOSE i \in DOMAIN UpperCase : UpperCase[i] = c]]

Lower(c) == IF c \in DOMAIN ToLower THEN ToLower[c] ELSE c

\* \w of Python's re for the ASCII range: letters, digits and underscore
WordChars == Range(UpperCase) \cup Range(LowerCase) \cup Digits \cup {"_"}

IsWordChar(c) == c \in WordChars

\* str.isspace for the characters the model uses
Whitespace == {" ", "\t", "\n", "\r"}

(***************************************************************************)
(* TERMS (lines 22-34).                                                    *)
(***************************************************************************)
CHANGE_SINGLE ==
    << <<"c","h","a","n","g","e">>,
       <<"m","o","d","i","f","y">>,
       <<"s","w","i","t","c","h">>,
       <<"u","p","d","a","t","e">>,
       <<"a","l","t","e","r">>,
       <<"r","e","v","i","s","e">>,
       <<"a","m","e","n","d">>,
       <<"e","d","i","t">> >>

ADDR_SINGLE ==
    << <<"a","d","d","r","e","s","s">> >>

ADDR_PHRASE ==
    << <<"m","a","i","l","i","n","g"," ","a","d","d","r","e","s","s">>,
       <<"b","i","l","l","i","n","g"," ","a","d","d","r","e","s","s">>,
       <<"r","e","m","i","t"," ","t","o">>,
       <<"r","e","m","i","t","t","a","n","c","e"," ","a","d","d","r","e","s","s">>,
       <<"s","h","i","p"," ","t","o">> >>

BANK_SINGLE ==
    << <<"a","c","h">> >>

BANK_PHRASE ==
    << <<"b","a","n","k"," ","a","c","c","o","u","n","t">>,
       <<"b","a","n","k"," ","i","n","f","o","r","m","a","t","i","o","n">>,
       <<"b","a","n","k"," ","d","e","t","a","i","l","s">>,
       <<"r","o","u","t","i","n","g"," ","i","n","f","o","r","m","a","t","i","o","n">>,
       <<"r","o","u","t","i","n","g"," ","n","u","m","b","e","r">>,
       <<"a","c","c","o","u","n","t"," ","n","u","m","b","e","r">>,
       <<"w","i","r","e"," ","i","n","s","t","r","u","c","t","i","o","n","s">>,
       <<"d","i","r","e","c","t"," ","d","e","p","o","s","i","t">>,
       <<"p","a","y","m","e","n","t"," ","d","e","t","a","i","l","s">>,
       <<"r","o","u","t","i","n","g"," ","#">>,
       <<"a","c","c","t"," ","#">>,
       <<"a","c","c","o","u","n","t"," ","#">>,
       <<"b","a","n","k"," ","a","c","c","t">> >>

(***************************************************************************)
(* _compile_terms and re.search (lines 36-39).  A compiled pattern is the  *)
(* sequence of its alternatives, in order: each single term between two \b *)
(* assertions, then each phrase as an escaped literal; None when there is  *)
(* no alternative at all.  Every alternative is matched with IGNORECASE.   *)
(***************************************************************************)
NoPattern == <<>>

Alt(t, wb) == [term |-> t, boundary |-> wb]

_compile_terms(single_terms, phrase_terms) ==
    LET parts == [i \in DOMAIN single_terms |-> Alt(single_terms[i], TRUE)]
                 \o [i \in DOMAIN phrase_terms |-> Alt(phrase_terms[i], FALSE)]
    IN  IF parts # <<>> THEN parts ELSE NoPattern

\* whether a word character stands at index i of text (none outside it)
WordAt(text, i) == i \in DOMAIN text /\ IsWordChar(text[i])

\* \b between index p and index p + 1
WordBoundary(text, p) == WordAt(text, p) # WordAt(text, p + 1)

\* the escaped literal t matches the characters after offset p
LiteralAt(t, text, p) ==
    /\ p + Len(t) <= Len(text)
    /\ \A j \in DOMAIN t : Lower(text[p + j]) = Lower(t[j])

\* an alternative that lost its \b assertions
AltAt_unanchored(alt, text, p) == LiteralAt(alt.term, text, p)

AltAt(alt, text, p) ==
    /\ LiteralAt(alt.term, text, p)
    /\ alt.boundary =>
          /\ WordBoundary(text, p)
          /\ WordBoundary(text, p + Len(alt.term))

\* pattern.search(text) is not None
Search(pattern, text) ==
    \E p \in 0..Len(text) : \E k \in DOMAIN pattern : AltAt(pattern[k], text, p)

(***************************************************************************)
(* State.                                                                  *)
(***************************************************************************)
VARIABLES
    \* the process environment and the interpreter's namespace
    environ,          \* os.environ: DAYS_BACK, MAX_SCAN, MAX_RESULTS
    builtins,         \* what the name CHANGE_PHRASE resolves to at line 41
    cacheFile,        \* ~/.msal_mailbox_cache.bin
    \* module globals, set by the import of the module
    DAYS_BACK, MAX_SCAN, MAX_RESULTS, PAT_CHANGE, PAT_ADDRBANK,
    \* control: where the program is, and how it ended
    pc, exitCode, error,
    \* get_token
    cache, result, flow, token,
    \* fetch_pages (a generator: its locals live across yields)
    url, params, first, fp_total_est, data, fp_pc,
    \* the mailbox API and the requests sent to it
    collection, lastReq,
    \* main
    page, idx, scanned, matches, first_page, total_est,
    \* what the run has written
    hits_csv, writes, summary,
    \* history of the run
    yielded, classified,
    \* a call of one function on its own
    call

envVars == <<environ, builtins>>
globalVars == <<DAYS_BACK, MAX_SCAN, MAX_RESULTS, PAT_CHANGE, PAT_ADDRBANK>>
ctlVars == <<pc, exitCode, error>>
tokenVars == <<cacheFile, cache, result, flow, token>>
fetchVars == <<url, params, first, fp_total_est, data, fp_pc>>
serverVars == <<collection, lastReq>>
mainVars == <<page, idx, scanned, matches, first_page, total_est>>
outVars == <<hits_csv, writes, summary>>
histVars == <<yielded, classified>>

vars ==
    <<envVars, globalVars, ctlVars, tokenVars, fetchVars, serverVars,
      mainVars, outVars, histVars, call>>

(***************************************************************************)
(* qualifies (lines 44-46).                                                *)
(***************************************************************************)
\* qualifies with "or" in place of "and"
qualifies_either(subject, preview) ==
    LET text == OrElse(subject, <<>>) \o <<"\n">> \o OrElse(preview, <<>>)
    IN  Search(PAT_CHANGE, text) \/ Search(PAT_ADDRBANK, text)

qualifies(subject, preview) ==
    LET text == OrElse(subject, <<>>) \o <<"\n">> \o OrElse(preview, <<>>)
    IN  Search(PAT_CHANGE, text) /\ Search(PAT_ADDRBANK, text)

(***************************************************************************)
(* Messages as the mailbox API returns them: the selected fields, each a   *)
(* string or absent (None).  "from" holds what                             *)
(* from.emailAddress.address holds, None when "from" is absent or null.    *)
(***************************************************************************)
Message(i, f, r, s, p, w) ==
    [id |-> i, internetMessageId |-> i, from |-> f, receivedDateTime |-> r,
     subject |-> s, bodyPreview |-> p, webLink |-> w]

\* qualifies once the line break of its subject has become a space
MsgHit ==
    Message(<<"1">>, <<"a","@","b">>, <<"T">>,
            <<" ","E","d","i","t","\n","A","C","H","\r","\n">>, None, <<"w">>)

\* "exchange" is no action word: a target term alone
MsgMiss ==
    Message(<<"2">>, None, <<"T">>, None,
            <<"e","x","c","h","a","n","g","e"," ","a","c","c","t"," ","#">>,
            None)

Messages == {MsgHit, MsgMiss}

\* str.replace(old, new) for one-character old and new
Replace(s, old, new) == [i \in DOMAIN s |-> IF s[i] = old THEN new ELSE s[i]]

RECURSIVE LStrip(_)
LStrip(s) ==
    IF s # <<>> /\ Head(s) \in Whitespace THEN LStrip(Tail(s)) ELSE s

RECURSIVE RStrip(_)
RStrip(s) ==
    IF s # <<>> /\ s[Len(s)] \in Whitespace
    THEN RStrip(SubSeq(s, 1, Len(s) - 1))
    ELSE s

\* str.strip()
Strip(s) == RStrip(LStrip(s))

\* line 151: (msg.get("from") or {}).get("emailAddress", {}).get("address")
SenderOf(msg) == msg.from

\* line 153
SubjOf(msg) ==
    Strip(Replace(Replace(OrElse(msg.subject, <<>>), "\r", " "), "\n", " "))

\* line 154
PrevOf(msg) == OrElse(msg.bodyPreview, <<>>)

\* lines 158-165: the Match Record of a message
MatchRecord(msg) ==
    [id |-> msg.id, internetMessageId |-> msg.internetMessageId,
     from |-> SenderOf(msg), receivedDateTime |-> msg.receivedDateTime,
     subject |-> SubjOf(msg), webLink |-> msg.webLink]

(***************************************************************************)
(* csv.DictWriter (lines 178-180): fieldnames are the keys of the first    *)
(* match, in insertion order; the dialect is excel (QUOTE_MINIMAL, "," as  *)
(* delimiter, CR LF as line terminator); None is written as "".            *)
(***************************************************************************)
FieldNames ==
    <<"id", "internetMessageId", "from", "receivedDateTime", "subject",
      "webLink">>

FieldChars ==
    << <<"i","d">>,
       <<"i","n","t","e","r","n","e","t","M","e","s","s","a","g","e","I","d">>,
       <<"f","r","o","m">>,
       <<"r","e","c","e","i","v","e","d","D","a","t","e","T","i","m","e">>,
       <<"s","u","b","j","e","c","t">>,
       <<"w","e","b","L","i","n","k">> >>

RECURSIVE Concat(_)
Concat(ss) == IF ss = <<>> THEN <<>> ELSE Head(ss) \o Concat(Tail(ss))

CsvSpecial == {",", "\"", "\r", "\n"}

\* a writer that never quotes
CsvField_unquoted(v) == IF v = None THEN <<>> ELSE v

\* one field as the writer emits it
CsvField(v) ==
    LET s == IF v = None THEN <<>> ELSE v
        doubled == Concat([i \in DOMAIN s |->
                      IF s[i] = "\"" THEN <<"\"", "\"">> ELSE <<s[i]>>])
    IN  IF \E i \in DOMAIN s : s[i] \in CsvSpecial
        THEN <<"\"">> \o doubled \o <<"\"">>
        ELSE s

\* one row: the fields joined by the delimiter, then the line terminator
CsvRow(fields) ==
    Concat([i \in DOMAIN fields |->
        (IF i = 1 THEN <<>> ELSE <<",">>) \o CsvField(fields[i])])
    \o <<"\r", "\n">>

\* w.writeheader(); w.writerows(matches)
CsvWrite(records) ==
    CsvRow(FieldChars)
    \o Concat([r \in DOMAIN records |->
          CsvRow([k \in DOMAIN FieldNames |-> records[r][FieldNames[k]]])])

(***************************************************************************)
(* csv.reader over the written text, as a re-parse of hits.csv reads it    *)
(* (excel dialect, file opened with newline=""): the rows, each a sequence *)
(* of fields.  DictReader then drops the rows without any field.           *)
(***************************************************************************)
\* the reader's state: parser state, field and row under construction, and
\* the rows read
CsvStart == [st |-> "start_record", fld |-> <<>>, row |-> <<>>, rows |-> <<>>]

\* one character read
CsvStep(q, c) ==
    LET nl == c \in {"\r", "\n"}
        after == IF c = "\r" THEN "after_cr" ELSE "start_record"
        to(st, fld, row, rows) ==
            [st |-> st, fld |-> fld, row |-> row, rows |-> rows]
    IN  CASE q.st = "after_cr" /\ c = "\n" ->
                to("start_record", <<>>, <<>>, q.rows)
          [] q.st \in {"start_record", "after_cr"} /\ nl ->
                to(after, <<>>, <<>>, Append(q.rows, <<>>))
          [] q.st \in {"start_record", "after_cr", "start_field"} /\ ~nl ->
                IF c = "\""
                THEN to("in_quoted", <<>>, q.row, q.rows)
                ELSE IF c = ","
                THEN to("start_field", <<>>, Append(q.row, <<>>), q.rows)
                ELSE to("in_field", <<c>>, q.row, q.rows)
          [] q.st = "in_quoted" ->
                IF c = "\""
                THEN to("quote_in_quoted", q.fld, q.row, q.rows)
                ELSE to("in_quoted", Append(q.fld, c), q.row, q.rows)
          [] q.st = "quote_in_quoted" /\ c = "\"" ->
                to("in_quoted", Append(q.fld, c), q.row, q.rows)
          [] q.st \in {"start_field", "in_field", "quote_in_quoted"} /\ nl ->
                to(after, <<>>, <<>>, Append(q.rows, Append(q.row, q.fld)))
          [] q.st \in {"in_field", "quote_in_quoted"} /\ c = "," ->
                to("start_field", <<>>, Append(q.row, q.fld), q.rows)
          [] OTHER ->
                to("in_field", Append(q.fld, c), q.row, q.rows)

\* the end of the text closes a record under construction
CsvEnd(q) ==
    IF q.st \in {"start_record", "after_cr"}
    THEN q.rows
    ELSE Append(q.rows, Append(q.row, q.fld))

\* the characters s[lo..hi] read in order from state q (the left half is
\* reduced to a state before the right half is read)
RECURSIVE CsvScan(_, _, _, _)
CsvScan(s, lo, hi, q) ==
    IF lo > hi THEN q
    ELSE IF lo = hi THEN CsvStep(q, s[lo])
    ELSE LET mid == (lo + hi) \div 2
             left == CsvScan(s, lo, mid, q)
         IN  IF left.st = "" THEN left ELSE CsvScan(s, mid + 1, hi, left)

CsvRead(s) ==
    SelectSeq(CsvEnd(CsvScan(s, 1, Len(s), CsvStart)), LAMBDA r : r # <<>>)

(***************************************************************************)
(* Configuration (lines 16-19): int(os.environ.get(NAME, default)).        *)
(***************************************************************************)
PAGE_SIZE == 50
DEFAULT_DAYS_BACK == 5
DEFAULT_MAX_SCAN == 100
DEFAULT_MAX_RESULTS == 100

\* the value of an environment variable: unset, the text of an integer, or
\* a text int() rejects
EnvUnset == [kind |-> "unset", n |-> 0]
EnvInt(n) == [kind |-> "int", n |-> n]
EnvInvalid == [kind |-> "invalid", n |-> 0]

\* int(os.environ.get(NAME, default)), for a value int() accepts
IntOf(v, default) == IF v.kind = "unset" THEN default ELSE v.n

\* int() raises ValueError
Rejected(v) == v.kind = "invalid"

\* the name CHANGE_PHRASE is assigned nowhere in the file: line 41 looks it
\* up in the module's globals and then in the interpreter's builtins
Unbound == [bound |-> FALSE, value |-> <<>>]
BoundTo(phrases) == [bound |-> TRUE, value |-> phrases]

(***************************************************************************)
(* Requests to the mailbox API.                                            *)
(***************************************************************************)
\* lines 53-56: MAILBOX is an address, not "me"
base_url == [link |-> FALSE, page |-> 1]
\* the continuation link to page k, opaque to the program
NextLink(k) == [link |-> TRUE, page |-> k]
\* no @odata.nextLink in the response
NoLink == [link |-> FALSE, page |-> 0]

\* lines 86-92: the query of the first request
InitialParams ==
    [sent |-> TRUE, filter_days |-> DAYS_BACK, orderby_desc |-> TRUE,
     top |-> PAGE_SIZE, count |-> TRUE]
\* line 114: params = None
NoParams ==
    [sent |-> FALSE, filter_days |-> 0, orderby_desc |-> FALSE,
     top |-> 0, count |-> FALSE]

NoRequest ==
    [url |-> NoLink, params |-> NoParams, auth |-> "none", status |-> 0,
     attempt |-> 0, sleep |-> 0]

\* line 103: the default of Retry-After, in seconds
DEFAULT_RETRY_AFTER == 5

\* an optional integer: <<>> is None
NoInt == <<>>

\* the body of a response: its continuation link and its @odata.count
NoData == [nextLink |-> NoLink, count |-> NoInt]

NoCall == [fn |-> "none", args |-> <<>>, done |-> FALSE, ret |-> <<>>]

(***************************************************************************)
(* Inputs of a run.                                                        *)
(***************************************************************************)
\* largest cap set through the environment
MaxCap == 2
\* most messages the mailbox serves in one run
MaxItems == 3

EnvDays == {EnvUnset, EnvInvalid, EnvInt(1)}
EnvCaps == {EnvUnset, EnvInvalid} \cup {EnvInt(n) : n \in (0 - 1)..MaxCap}

\* what CHANGE_PHRASE may be bound to when it is bound: a list of phrases
NoPhrases == <<>>
SomePhrases == << <<"n","e","w"," ","b","a","n","k">> >>

CacheFiles == {"missing", "unreadable", "corrupt", "valid"}

\* the sequences over S of length at most n
SeqsUpTo(S, n) == UNION {[1..k -> S] : k \in 0..n}

\* @odata.count of a response: absent or a number
Counts == {NoInt, <<9>>}

\* every environment of the three variables
Environs == [DAYS_BACK : EnvDays, MAX_SCAN : EnvCaps, MAX_RESULTS : EnvCaps]

\* the environment with none of them set
NoEnviron ==
    [DAYS_BACK |-> EnvUnset, MAX_SCAN |-> EnvUnset, MAX_RESULTS |-> EnvUnset]

Init(environs, bindings, cacheFiles, calls) ==
    /\ environ \in environs
    /\ builtins \in bindings
    /\ cacheFile \in cacheFiles
    /\ DAYS_BACK = 0 /\ MAX_SCAN = 0 /\ MAX_RESULTS = 0
    /\ PAT_CHANGE = NoPattern /\ PAT_ADDRBANK = NoPattern
    /\ pc = "import" /\ exitCode = NoInt /\ error = "none"
    /\ cache = "none" /\ result = "unset" /\ flow = "unset" /\ token = "none"
    /\ url = NoLink /\ params = NoParams /\ first = TRUE
    /\ fp_total_est = NoInt /\ data = NoData /\ fp_pc = "unstarted"
    /\ collection = <<>> /\ lastReq = NoRequest
    /\ page = <<>> /\ idx = 0 /\ scanned = 0 /\ matches = <<>>
    /\ first_page = TRUE /\ total_est = NoInt
    /\ hits_csv = None /\ writes = 0 /\ summary = <<>>
    /\ yielded = <<>> /\ classified = <<>>
    /\ call \in calls

(***************************************************************************)
(* An exception that leaves the program: raised at import it is uncaught   *)
(* (traceback, exit status 1); raised inside main it reaches the except    *)
(* clause of lines 190-191 (traceback, sys.exit(1)).                       *)
(***************************************************************************)
\* an except clause that ends the run with exit status 0
Fatal_exitsZero(exc) == pc' = "exit" /\ exitCode' = <<0>> /\ error' = exc

Fatal(exc) == pc' = "exit" /\ exitCode' = <<1>> /\ error' = exc

(***************************************************************************)
(* Import of the module (lines 2-42).                                      *)
(***************************************************************************)
ModuleImport ==
    /\ pc = "import"
    /\ IF \E k \in DOMAIN environ : Rejected(environ[k])
       THEN /\ Fatal("ValueError")
            /\ UNCHANGED globalVars
       ELSE IF ~builtins.bound
       THEN /\ Fatal("NameError")
            /\ DAYS_BACK' = IntOf(environ.DAYS_BACK, DEFAULT_DAYS_BACK)
            /\ MAX_SCAN' = IntOf(environ.MAX_SCAN, DEFAULT_MAX_SCAN)
            /\ MAX_RESULTS' = IntOf(environ.MAX_RESULTS, DEFAULT_MAX_RESULTS)
            /\ UNCHANGED <<PAT_CHANGE, PAT_ADDRBANK>>
       ELSE /\ DAYS_BACK' = IntOf(environ.DAYS_BACK, DEFAULT_DAYS_BACK)
            /\ MAX_SCAN' = IntOf(environ.MAX_SCAN, DEFAULT_MAX_SCAN)
            /\ MAX_RESULTS' = IntOf(environ.MAX_RESULTS, DEFAULT_MAX_RESULTS)
            /\ PAT_CHANGE' = _compile_terms(CHANGE_SINGLE, builtins.value)
            /\ PAT_ADDRBANK' = _compile_terms(ADDR_SINGLE \o BANK_SINGLE,
                                              ADDR_PHRASE \o BANK_PHRASE)
            /\ pc' = "main" /\ UNCHANGED <<exitCode, error>>
    /\ UNCHANGED <<envVars, tokenVars, fetchVars, serverVars, mainVars,
                   outVars, histVars, call>>

(***************************************************************************)
(* get_token (lines 58-80), entered from main (lines 117-120).             *)
(***************************************************************************)
\* a load without the try of lines 61-64: a file that cannot be read or
\* deserialized raises
LoadCache_unguarded ==
    /\ pc = "main"
    /\ IF cacheFile \in {"unreadable", "corrupt"}
       THEN Fatal("Exception") /\ UNCHANGED cache
       ELSE /\ cache' = IF cacheFile = "valid" THEN "loaded" ELSE "empty"
            /\ pc' = "silent"
            /\ UNCHANGED <<exitCode, error>>
    /\ UNCHANGED <<envVars, globalVars, cacheFile, result,
                   flow, token, fetchVars, serverVars, mainVars, outVars,
                   histVars, call>>

\* lines 59-69: a cache file that is missing, unreadable or corrupt leaves
\* the cache empty
LoadCache ==
    /\ pc = "main"
    /\ cache' = IF cacheFile = "valid" THEN "loaded" ELSE "empty"
    /\ pc' = "silent"
    /\ UNCHANGED <<envVars, globalVars, exitCode, error, cacheFile, result,
                   flow, token, fetchVars, serverVars, mainVars, outVars,
                   histVars, call>>

\* a get_token that starts the device flow whatever the silent attempt gave
AcquireSilent_alwaysFlow ==
    /\ pc = "silent"
    /\ result' \in {"None"} \cup
                   (IF cache = "loaded" THEN {"token", "error"} ELSE {})
    /\ pc' = "device_flow"
    /\ UNCHANGED <<envVars, globalVars, exitCode, error, cacheFile, cache,
                   flow, token, fetchVars, serverVars, mainVars, outVars,
                   histVars, call>>

\* line 70: None, a result with an access token, or a result without one;
\* an empty cache holds no token
AcquireSilent ==
    /\ pc = "silent"
    /\ result' \in {"None"} \cup
                   (IF cache = "loaded" THEN {"token", "error"} ELSE {})
    /\ pc' = IF result' = "None" THEN "device_flow" ELSE "check"
    /\ UNCHANGED <<envVars, globalVars, exitCode, error, cacheFile, cache,
                   flow, token, fetchVars, serverVars, mainVars, outVars,
                   histVars, call>>

\* lines 72-75
InitiateDeviceFlow ==
    /\ pc = "device_flow"
    /\ flow' \in {"user_code", "no_user_code"}
    /\ IF flow' = "no_user_code"
       THEN Fatal("RuntimeError")
       ELSE pc' = "exchange" /\ UNCHANGED <<exitCode, error>>
    /\ UNCHANGED <<envVars, globalVars, cacheFile, cache, result, token,
                   fetchVars, serverVars, mainVars, outVars, histVars, call>>

\* line 76
AcquireByDeviceFlow ==
    /\ pc = "exchange"
    /\ result' \in {"token", "error"}
    /\ pc' = "check"
    /\ UNCHANGED <<envVars, globalVars, exitCode, error, cacheFile, cache,
                   flow, token, fetchVars, serverVars, mainVars, outVars,
                   histVars, call>>

\* a get_token that saves the cache before it looks at the result
ReturnToken_savesFirst ==
    /\ pc = "check"
    /\ cacheFile' = "written"
    /\ IF result # "token"
       THEN /\ Fatal("RuntimeError")
            /\ UNCHANGED <<cache, result, flow, token>>
       ELSE /\ token' = "access_token"
            /\ cache' = "none" /\ result' = "unset" /\ flow' = "unset"
            /\ pc' = "scan" /\ UNCHANGED <<exitCode, error>>
    /\ UNCHANGED <<envVars, globalVars, fetchVars, serverVars, mainVars,
                   outVars, histVars, call>>

\* lines 77-80; on return the locals of get_token are gone
ReturnToken ==
    /\ pc = "check"
    /\ IF result # "token"
       THEN /\ Fatal("RuntimeError")
            /\ UNCHANGED <<cacheFile, cache, result, flow, token>>
       ELSE /\ cacheFile' = "written"
            /\ token' = "access_token"
            /\ cache' = "none" /\ result' = "unset" /\ flow' = "unset"
            /\ pc' = "scan" /\ UNCHANGED <<exitCode, error>>
    /\ UNCHANGED <<envVars, globalVars, fetchVars, serverVars, mainVars,
                   outVars, histVars, call>>

(***************************************************************************)
(* The scan: main (lines 122-171) driving fetch_pages (lines 82-114).      *)
(***************************************************************************)
\* lines 122-133 and 84-99: the for statement starts the generator, which
\* runs up to its first request
StartScan ==
    /\ pc = "scan"
    /\ matches' = <<>> /\ scanned' = 0
    /\ first_page' = TRUE /\ total_est' = NoInt
    /\ url' = base_url /\ params' = InitialParams
    /\ first' = TRUE /\ fp_total_est' = NoInt
    /\ fp_pc' = "running"
    /\ pc' = "request"
    /\ UNCHANGED <<envVars, globalVars, exitCode, error, tokenVars, data,
                   serverVars, page, idx, outVars, histVars, call>>

\* the request of line 101 (its headers are fixed but for the token), as the
\* n-th attempt of the same request
Request(status, secs) ==
    [url |-> url, params |-> params, auth |-> token, status |-> status,
     attempt |-> IF lastReq.status = 429 THEN lastReq.attempt + 1 ELSE 1,
     sleep |-> secs]

\* the Retry-After header of a 429 response: absent, the text of an integer
\* number of seconds, or an HTTP-date
RetryAfterHeaders == {EnvUnset, EnvInt(1), EnvInvalid}

\* a retry that re-sends the URL without its query
RateLimited_dropsQuery ==
    /\ pc = "request"
    /\ Request(429, 0).attempt <= Max429
    /\ \E h \in RetryAfterHeaders :
          IF Rejected(h)
          THEN /\ lastReq' = Request(429, 0)
               /\ fp_pc' = "raised"
               /\ Fatal("ValueError")
          ELSE /\ lastReq' = Request(429, IntOf(h, DEFAULT_RETRY_AFTER))
               /\ UNCHANGED <<fp_pc, ctlVars>>
    /\ params' = NoParams
    /\ UNCHANGED <<envVars, globalVars, tokenVars, url, first,
                   fp_total_est, data, collection, mainVars, outVars,
                   histVars, call>>

\* lines 101-103: HTTP 429; time.sleep(int(Retry-After or "5")); continue
RateLimited ==
    /\ pc = "request"
    /\ Request(429, 0).attempt <= Max429
    /\ \E h \in RetryAfterHeaders :
          IF Rejected(h)
          THEN /\ lastReq' = Request(429, 0)
               /\ fp_pc' = "raised"
               /\ Fatal("ValueError")
          ELSE /\ lastReq' = Request(429, IntOf(h, DEFAULT_RETRY_AFTER))
               /\ UNCHANGED <<fp_pc, ctlVars>>
    /\ UNCHANGED <<envVars, globalVars, tokenVars, url, params, first,
                   fp_total_est, data, collection, mainVars, outVars,
                   histVars, call>>

\* fetch_pages without raise_for_status: the error body holds neither
\* "value" nor "@odata.nextLink", so an empty last page is yielded
FetchFailed_notRaised ==
    /\ pc = "request"
    /\ \E status \in {401, 503} : lastReq' = Request(status, 0)
    /\ data' = NoData
    /\ fp_total_est' = IF first THEN NoInt ELSE fp_total_est
    /\ first' = FALSE
    /\ fp_pc' = "suspended"
    /\ yielded' = Append(yielded, <<>>)
    /\ page' = <<>> /\ idx' = 0
    /\ total_est' = IF first_page THEN fp_total_est' ELSE total_est
    /\ first_page' = FALSE
    /\ pc' = "items"
    /\ UNCHANGED <<envVars, globalVars, exitCode, error, tokenVars, url,
                   params, collection, scanned, matches, outVars,
                   classified, call>>

\* lines 101-104: another status of the 4xx or 5xx range; raise_for_status
\* raises, the generator ends with the exception, and main's except clause
\* ends the run
FetchFailed ==
    /\ pc = "request"
    /\ \E status \in {401, 503} : lastReq' = Request(status, 0)
    /\ fp_pc' = "raised"
    /\ Fatal("HTTPError")
    /\ UNCHANGED <<envVars, globalVars, tokenVars, url, params, first,
                   fp_total_est, data, collection, mainVars, outVars,
                   histVars, call>>

\* the number of messages in a sequence of pages
RECURSIVE Total(_)
Total(pages) == IF pages = <<>> THEN 0 ELSE Len(Head(pages)) + Total(Tail(pages))

\* the pages the mailbox may serve as its next one
NewPages ==
    LET k == Len(collection) + 1
        served == Total([i \in DOMAIN collection |-> collection[i].value])
        room == MaxItems - served
    IN  [value : SeqsUpTo(Messages, room),
         nextLink : {NoLink} \cup
                    (IF k < MaxPages THEN {NextLink(k + 1)} ELSE {})]

\* a generator that takes the total from every response
PageFetched_requeriesTotal ==
    /\ pc = "request"
    /\ \E pg \in (IF url.page \in DOMAIN collection
                  THEN {collection[url.page]} ELSE NewPages),
          count \in Counts :
          /\ collection' = IF url.page \in DOMAIN collection
                           THEN collection ELSE Append(collection, pg)
          /\ lastReq' = Request(200, 0)
          /\ data' = [nextLink |-> pg.nextLink, count |-> count]
          /\ fp_total_est' = count
          /\ first' = FALSE
          /\ fp_pc' = "suspended"
          /\ yielded' = Append(yielded, pg.value)
          /\ page' = pg.value /\ idx' = 0
          /\ total_est' = IF first_page THEN fp_total_est' ELSE total_est
          /\ first_page' = FALSE
    /\ pc' = "items"
    /\ UNCHANGED <<envVars, globalVars, exitCode, error, tokenVars, url,
                   params, scanned, matches, outVars, classified, call>>

\* lines 101-109 and 133-138: a successful response; the generator keeps
\* the total of the first one and yields the page, main takes it
PageFetched ==
    /\ pc = "request"
    /\ \E pg \in (IF url.page \in DOMAIN collection
                  THEN {collection[url.page]} ELSE NewPages),
          count \in Counts :
          /\ collection' = IF url.page \in DOMAIN collection
                           THEN collection ELSE Append(collection, pg)
          /\ lastReq' = Request(200, 0)
          /\ data' = [nextLink |-> pg.nextLink, count |-> count]
          /\ fp_total_est' = IF first THEN count ELSE fp_total_est
          /\ first' = FALSE
          /\ fp_pc' = "suspended"
          /\ yielded' = Append(yielded, pg.value)
          /\ page' = pg.value /\ idx' = 0
          /\ total_est' = IF first_page THEN fp_total_est' ELSE total_est
          /\ first_page' = FALSE
    /\ pc' = "items"
    /\ UNCHANGED <<envVars, globalVars, exitCode, error, tokenVars, url,
                   params, scanned, matches, outVars, classified, call>>

\* lines 167 and 170
StopCond(n, ms) == n >= MAX_SCAN \/ Len(ms) >= MAX_RESULTS

\* a loop that counts the page instead of the message
ProcessItem_countsPage ==
    /\ pc = "items"
    /\ idx < Len(page)
    /\ LET msg == page[idx + 1]
           subj == SubjOf(msg)
           prev == PrevOf(msg)
       IN  /\ scanned' = scanned + Len(page)
           /\ classified' = Append(classified, msg)
           /\ matches' = IF qualifies(subj, prev)
                         THEN Append(matches, MatchRecord(msg))
                         ELSE matches
    /\ idx' = idx + 1
    /\ pc' = IF StopCond(scanned', matches') THEN "finish" ELSE "items"
    /\ UNCHANGED <<envVars, globalVars, exitCode, error, tokenVars,
                   fetchVars, serverVars, page, first_page, total_est,
                   outVars, yielded, call>>

\* lines 140-168: one message of the page
ProcessItem ==
    /\ pc = "items"
    /\ idx < Len(page)
    /\ LET msg == page[idx + 1]
           subj == SubjOf(msg)
           prev == PrevOf(msg)
       IN  /\ scanned' = scanned + 1
           /\ classified' = Append(classified, msg)
           /\ matches' = IF qualifies(subj, prev)
                         THEN Append(matches, MatchRecord(msg))
                         ELSE matches
    /\ idx' = idx + 1
    /\ pc' = IF StopCond(scanned', matches') THEN "finish" ELSE "items"
    /\ UNCHANGED <<envVars, globalVars, exitCode, error, tokenVars,
                   fetchVars, serverVars, page, first_page, total_est,
                   outVars, yielded, call>>

\* a resumption that follows the link and sends the query again
EndOfPage_keepsQuery ==
    /\ pc = "items"
    /\ idx = Len(page)
    /\ IF StopCond(scanned, matches)
       THEN /\ pc' = "finish"
            /\ UNCHANGED <<url, fp_pc>>
       ELSE IF data.nextLink = NoLink
       THEN /\ pc' = "finish"
            /\ fp_pc' = "finished"
            /\ UNCHANGED url
       ELSE /\ url' = data.nextLink
            /\ fp_pc' = "running"
            /\ pc' = "request"
    /\ UNCHANGED <<envVars, globalVars, exitCode, error, tokenVars, first,
                   fp_total_est, data, serverVars, mainVars, outVars,
                   histVars, call, params>>

\* lines 170-171 and 110-114: the page is exhausted; unless a cap is
\* reached the generator is resumed and follows the continuation link
EndOfPage ==
    /\ pc = "items"
    /\ idx = Len(page)
    /\ IF StopCond(scanned, matches)
       THEN /\ pc' = "finish"
            /\ UNCHANGED <<url, params, fp_pc>>
       ELSE IF data.nextLink = NoLink
       THEN /\ pc' = "finish"
            /\ fp_pc' = "finished"
            /\ UNCHANGED <<url, params>>
       ELSE /\ url' = data.nextLink
            /\ params' = NoParams
            /\ fp_pc' = "running"
            /\ pc' = "request"
    /\ UNCHANGED <<envVars, globalVars, exitCode, error, tokenVars, first,
                   fp_total_est, data, serverVars, mainVars, outVars,
                   histVars, call>>

\* an end of scan that writes the file whether or not there is a match
Finish_alwaysWrites ==
    /\ pc = "finish"
    /\ hits_csv' = CsvWrite(matches)
    /\ writes' = writes + 1
    /\ summary' = IF matches # <<>>
                  THEN <<"matches", Len(matches), scanned>>
                  ELSE <<"no matches", 0, scanned>>
    /\ pc' = "done" /\ exitCode' = <<0>>
    /\ UNCHANGED <<envVars, globalVars, error, tokenVars, fetchVars,
                   serverVars, mainVars, histVars, call>>

\* lines 173-189: the end of a scan that was not cut short by an exception
Finish ==
    /\ pc = "finish"
    /\ IF matches # <<>>
       THEN /\ hits_csv' = CsvWrite(matches)
            /\ writes' = writes + 1
            /\ summary' = <<"matches", Len(matches), scanned>>
       ELSE /\ UNCHANGED <<hits_csv, writes>>
            /\ summary' = <<"no matches", 0, scanned>>
    /\ pc' = "done" /\ exitCode' = <<0>>
    /\ UNCHANGED <<envVars, globalVars, error, tokenVars, fetchVars,
                   serverVars, mainVars, histVars, call>>

Next ==
    \/ ModuleImport
    \/ LoadCache
    \/ AcquireSilent
    \/ InitiateDeviceFlow
    \/ AcquireByDeviceFlow
    \/ ReturnToken
    \/ StartScan
    \/ RateLimited
    \/ FetchFailed
    \/ PageFetched
    \/ ProcessItem
    \/ EndOfPage
    \/ Finish

InitRun == Init(Environs, {Unbound, BoundTo(NoPhrases)}, CacheFiles, {NoCall})

Spec == InitRun /\ [][Next]_vars

(***************************************************************************)
(* Properties of the scan.                                                 *)
(***************************************************************************)
\* the messages delivered so far, in delivery order
Delivered == Concat(yielded)

\* for each list of phrases CHANGE_PHRASE may hold and each message,
\* whether both matchers hit the text of the message: its subject as the
\* Message Record holds it, a line break, its preview
HitTable ==
    [phrases \in {NoPhrases, SomePhrases} |->
        [msg \in Messages |->
            LET text == SubjOf(msg) \o <<"\n">> \o PrevOf(msg)
            IN  /\ Search(_compile_terms(CHANGE_SINGLE, phrases), text)
                /\ Search(_compile_terms(ADDR_SINGLE \o BANK_SINGLE,
                                         ADDR_PHRASE \o BANK_PHRASE), text)]]

BothHit(msg) == HitTable[builtins.value][msg]

\* the module was imported without an exception
Imported == PAT_ADDRBANK # NoPattern

\* the stop condition as it stands once the first i of items are processed
CapHit(items, i) ==
    \/ i >= MAX_SCAN
    \/ Cardinality({j \in 1..i : BothHit(items[j])}) >= MAX_RESULTS

\* the mailbox has served its last page: one without a continuation link
Exhausted ==
    collection # <<>> /\ collection[Len(collection)].nextLink = NoLink

Min(S) == CHOOSE x \in S : \A y \in S : x <= y

\* C1: when the scan loop has ended, the driver has processed exactly the
\* first k delivered messages, k being the smallest message index at which
\* scanned >= MAX_SCAN or len(matches) >= MAX_RESULTS holds, or the whole
\* collection (every page up to the one without a continuation link) when
\* it holds at no index.
C1_CapEnforcement ==
    pc \in {"finish", "done"} =>
        LET hits == {i \in 1..Len(Delivered) : CapHit(Delivered, i)}
        IN  /\ classified = SubSeq(Delivered, 1, scanned)
            /\ IF hits # {}
               THEN scanned = Min(hits)
               ELSE scanned = Len(Delivered) /\ Exhausted

\* C2: for every integer the caps are configured to, scanned <= MAX_SCAN
\* and len(matches) <= MAX_RESULTS in every state of the run.
C2_CapsAreMaxima ==
    Imported => scanned <= MAX_SCAN /\ Len(matches) <= MAX_RESULTS

C3_Inv ==
    LET q == SelectSeq(classified, BothHit)
    IN  /\ classified = SubSeq(Delivered, 1, scanned)
        /\ matches = [i \in DOMAIN q |-> MatchRecord(q[i])]

C3_Step ==
    \/ matches' = matches
    \/ /\ Len(matches') = Len(matches) + 1
       /\ SubSeq(matches', 1, Len(matches)) = matches

Tokens ==
    { <<"c","h","a","n","g","e">>, <<"e","x">>, <<" ">>, <<"A","C","H">>,
      <<"_">>, <<"s","h","i","p"," ","t","o">>,
      <<"N","e","w"," ","B","a","n","k">> }

\* the texts made of at most MaxTokens tokens, and the absent text
Subjects ==
    {None} \cup {Concat(ts) : ts \in SeqsUpTo(Tokens, MaxTokens)}

Previews ==
    {None, <<>>, <<"A","m","e","n","d">>, <<"a","c","c","t"," ","#">>}

QualifiesCalls ==
    {[fn |-> "qualifies", args |-> <<s, p>>, done |-> FALSE, ret |-> FALSE] :
        s \in Subjects, p \in Previews}

InitQualifies ==
    Init({NoEnviron}, {BoundTo(NoPhrases), BoundTo(SomePhrases)},
         {"missing"}, QualifiesCalls)

CallQualifies ==
    /\ pc = "main"
    /\ call.fn = "qualifies"
    /\ ~call.done
    /\ call' = [call EXCEPT !.done = TRUE,
                            !.ret = qualifies(call.args[1], call.args[2])]
    /\ UNCHANGED <<envVars, globalVars, ctlVars, tokenVars, fetchVars,
                   serverVars, mainVars, outVars, histVars>>

NextQualifies == ModuleImport \/ CallQualifies

SpecQualifies == InitQualifies /\ [][NextQualifies]_vars

LowerSeq(s) == [i \in DOMAIN s |-> Lower(s[i])]

\* t stands in text from index i on, up to the case of its letters
Occurs(t, text, i) ==
    /\ i + Len(t) - 1 <= Len(text)
    /\ LowerSeq(SubSeq(text, i, i + Len(t) - 1)) = LowerSeq(t)

\* text contains the phrase t as a substring
ContainsPhrase(text, t) == \E i \in DOMAIN text : Occurs(t, text, i)

\* text contains t as a whole word: an occurrence with no letter, digit or
\* underscore right before it or right after it
ContainsWord(text, t) ==
    \E i \in DOMAIN text :
        /\ Occurs(t, text, i)
        /\ i = 1 \/ text[i - 1] \notin WordChars
        /\ i + Len(t) > Len(text) \/ text[i + Len(t)] \notin WordChars

ContainsAny(text, words, phrases) ==
    \/ \E k \in DOMAIN words : ContainsWord(text, words[k])
    \/ \E k \in DOMAIN phrases : ContainsPhrase(text, phrases[k])

\* C4: qualifies(subject, preview), an absent subject or preview counting
\* as empty, is true exactly when subject + line break + preview contains
\* an action term and a target term, a single word as a whole word, a
\* phrase as a substring, both whatever the case of the letters.
C4_QualifiesIffBothGroups ==
    (call.fn = "qualifies" /\ call.done) =>
        LET s == IF call.args[1] = None THEN <<>> ELSE call.args[1]
            p == IF call.args[2] = None THEN <<>> ELSE call.args[2]
            text == s \o <<"\n">> \o p
        IN  call.ret =
              (/\ ContainsAny(text, CHANGE_SINGLE, builtins.value)
               /\ ContainsAny(text, ADDR_SINGLE \o BANK_SINGLE,
                              ADDR_PHRASE \o BANK_PHRASE))

\* "exchange" in the subject and a target phrase in the preview: no match
C4_Witness ==
    /\ call.fn = "qualifies" /\ call.done
    /\ call.args[1] = <<"e","x","c","h","a","n","g","e"," ">>
    /\ call.args[2] = <<"a","c","c","t"," ","#">>
    /\ call.ret = FALSE

(***************************************************************************)
(* Properties of fetch_pages.                                              *)
(***************************************************************************)
\* the number of pages served before the last request was sent
ServedBefore ==
    IF lastReq.status = 200 THEN Len(collection) - 1 ELSE Len(collection)

C5_Inv ==
    \* every page served is yielded once, in the order served
    /\ yielded = [i \in DOMAIN collection |-> collection[i].value]
    \* the first request carries the query, every later one is the
    \* continuation link of the page before it and nothing else
    /\ lastReq.status # 0 =>
          IF ServedBefore = 0
          THEN lastReq.url = base_url /\ lastReq.params = InitialParams
          ELSE /\ lastReq.url = collection[ServedBefore].nextLink
               /\ lastReq.url # NoLink
               /\ lastReq.params = NoParams
    \* a request is pending only behind a page with a continuation link
    /\ (pc = "request" /\ collection # <<>>) =>
          /\ ~Exhausted
          /\ url = collection[Len(collection)].nextLink
          /\ params = NoParams
    \* the sequence ends behind a page without one
    /\ fp_pc = "finished" => Exhausted /\ lastReq.status = 200

\* no request is sent once the sequence has ended
C5_Step == fp_pc = "finished" => lastReq' = lastReq /\ fp_pc' = fp_pc

\* C5: fetch_pages yields every page of the mailbox once, in server order,
\* follows each continuation link verbatim without re-sending the query,
\* and ends, sending nothing more, at the first page without a link.
C5_Pagination == []C5_Inv /\ [][C5_Step]_vars

\* a sequence of two non-empty pages consumed to its end
C5_Witness ==
    /\ fp_pc = "finished"
    /\ Len(yielded) = 2
    /\ yielded[1] # <<>> /\ yielded[2] # <<>>

\* a step that receives HTTP 429
Is429Step == lastReq' # lastReq /\ lastReq'.status = 429

C6_Inv ==
    (lastReq.status = 429 /\ error = "none") =>
        pc = "request" /\ fp_pc = "running"

C6_Step ==
    /\ Is429Step =>
          /\ lastReq'.url = url /\ lastReq'.params = params
          /\ lastReq'.auth = token
          /\ UNCHANGED <<url, params, first, fp_total_est, data, collection,
                         yielded, page, idx, scanned, matches, first_page,
                         total_est, classified, hits_csv>>
    /\ (lastReq.status = 429 /\ lastReq' # lastReq) =>
          /\ lastReq'.url = lastReq.url
          /\ lastReq'.params = lastReq.params
          /\ lastReq'.auth = lastReq.auth
          /\ lastReq'.attempt = lastReq.attempt + 1

\* C6: a 429 yields no page and changes neither the cursor, the query, the
\* remembered total, the first-page flags, scanned nor matches, and the
\* request sent next is the one that received the 429, sent once more.
C6_RetryLeavesScanUntouched == []C6_Inv /\ [][C6_Step]_vars

\* a continuation request that succeeded at its second attempt, after
\* messages had been scanned
C6_Witness ==
    /\ lastReq.status = 200 /\ lastReq.attempt = 2
    /\ lastReq.url.link
    /\ scanned > 0 /\ matches # <<>>

\* C7: whatever Retry-After header a 429 response carries, the fetcher
\* sleeps (5 seconds when the header is absent) and retries; a 429 never
\* ends the run.
C7_RateLimitNeverFatal ==
    lastReq.status = 429 =>
        /\ pc = "request" /\ error = "none" /\ exitCode = NoInt
        /\ lastReq.sleep > 0

\* C8: a response with an error status other than 429 ends the run with
\* exit code 1 and without any write of hits.csv, whatever was collected.
C8_FetchErrorIsFatal ==
    /\ lastReq.status \notin {0, 200, 429} => error = "HTTPError"
    /\ error = "HTTPError" =>
          /\ pc = "exit" /\ exitCode = <<1>> /\ fp_pc = "raised"
          /\ hits_csv = None /\ writes = 0 /\ summary = <<>>

\* the request for a second page fails after a match was collected
C8_Witness ==
    /\ error = "HTTPError"
    /\ lastReq.url.link
    /\ matches # <<>>

\* C9: hits.csv is written at most once, by the end of a scan that was not
\* cut short by an exception, and exactly when there is a match; a run
\* without a match leaves no file and reports zero matches and the number
\* of messages processed.
C9_WrittenOnceIffMatches ==
    /\ writes <= 1
    /\ (hits_csv # None) = (writes = 1)
    /\ writes = 1 => pc = "done"
    /\ pc = "done" =>
          /\ (writes = 1) = (matches # <<>>)
          /\ matches # <<>> =>
                /\ hits_csv = CsvWrite(matches)
                /\ summary = <<"matches", Len(matches), Len(classified)>>
          /\ (\A i \in DOMAIN classified : ~BothHit(classified[i])) =>
                /\ hits_csv = None
                /\ summary = <<"no matches", 0, Len(classified)>>

\* a finished run that scanned messages and kept none
C9_Witness ==
    /\ pc = "done"
    /\ classified # <<>>
    /\ matches = <<>>

(***************************************************************************)
(* The csv writer on its own: a non-empty list of Match Records is written *)
(* as lines 178-180 write it.                                              *)
(***************************************************************************)
\* Match Records whose sender and link may be absent and whose subject and
\* link may hold a delimiter, a quote or a line break
SomeRecords ==
    { [id |-> <<"1">>, internetMessageId |-> <<"<","1",">">>, from |-> f,
       receivedDateTime |-> <<"T">>, subject |-> s, webLink |-> w] :
        f \in {None, <<"a","@","b">>},
        s \in {<<>>, <<"a",",","b">>, <<"\"","q","\"">>},
        w \in {None, <<"x","\r","\n","y">>} }

CsvCalls ==
    {[fn |-> "csv", args |-> rs, done |-> FALSE, ret |-> <<>>] :
        rs \in SeqsUpTo(SomeRecords, MaxRecords) \ {<<>>}}

InitCsv == Init({NoEnviron}, {BoundTo(NoPhrases)}, {"missing"}, CsvCalls)

CallCsvWrite ==
    /\ call.fn = "csv"
    /\ ~call.done
    /\ call' = [call EXCEPT !.done = TRUE, !.ret = CsvWrite(call.args)]
    /\ UNCHANGED <<envVars, globalVars, ctlVars, tokenVars, fetchVars,
                   serverVars, mainVars, outVars, histVars>>

NextCsv == CallCsvWrite

SpecCsv == InitCsv /\ [][NextCsv]_vars

\* the fields of a record, in the documented column order
RowOf(rec) == [k \in DOMAIN FieldNames |-> rec[FieldNames[k]]]

\* the same, an absent field standing as the empty string
RowOfText(rec) ==
    [k \in DOMAIN FieldNames |->
        IF rec[FieldNames[k]] = None THEN <<>> ELSE rec[FieldNames[k]]]

\* C10 as claimed: the file written for n records re-parses to n + 1 rows,
\* the header in the documented order and then every record exactly.
C10_RoundTripExact ==
    (call.fn = "csv" /\ call.done) =>
        LET rows == CsvRead(call.ret)
        IN  /\ Len(rows) = Len(call.args) + 1
            /\ rows[1] = FieldChars
            /\ \A r \in DOMAIN call.args : rows[r + 1] = RowOf(call.args[r])

\* C10 as amended: the same, except that an absent (None) field is read
\* back as the empty string.
C10_RoundTripUpToNone ==
    (call.fn = "csv" /\ call.done) =>
        LET rows == CsvRead(call.ret)
        IN  /\ Len(rows) = Len(call.args) + 1
            /\ rows[1] = FieldChars
            /\ \A r \in DOMAIN call.args :
                  rows[r + 1] = RowOfText(call.args[r])

\* two records written: one without a sender, one whose subject holds the
\* delimiter and whose link holds a line break
C10_Witness ==
    /\ call.fn = "csv" /\ call.done
    /\ Len(call.args) = 2
    /\ call.args[1].from = None
    /\ call.args[2].subject = <<"a",",","b">>
    /\ call.args[2].webLink = <<"x","\r","\n","y">>

(***************************************************************************)
(* Properties of get_token and of the end of a run.                        *)
(***************************************************************************)
\* get_token has returned
TokenReturned == token = "access_token"

C11_Inv ==
    /\ TokenReturned <=> cacheFile = "written"
    /\ error = "RuntimeError" => ~TokenReturned /\ pc = "exit"
    /\ flow = "no_user_code" => error = "RuntimeError"

C11_Step ==
    \* line 77: the final result decides
    /\ pc = "check" /\ pc' # "check" =>
          IF result = "token"
          THEN TokenReturned' /\ pc' = "scan" /\ error' = "none"
          ELSE ~TokenReturned' /\ error' = "RuntimeError"
               /\ cacheFile' = cacheFile
    \* line 73: a flow without a user code
    /\ pc = "device_flow" /\ flow' = "no_user_code" =>
          ~TokenReturned' /\ error' = "RuntimeError" /\ cacheFile' = cacheFile
    \* a token is returned, and the file written, by line 79-80 alone
    /\ TokenReturned' /\ ~TokenReturned => pc = "check" /\ result = "token"
    /\ cacheFile' # cacheFile => TokenReturned' /\ ~TokenReturned

ConfigRejected == \E k \in DOMAIN environ : Rejected(environ[k])

\* C12: a run ends with exit code 0 exactly when it reaches its normal end
\* (configuration read, token returned, the last request answered with
\* success, summary printed, with or without matches) and with exit code 1
\* on every failure (configuration, authentication, transport); a run that
\* has not ended has no exit code.
C12_ExitCodes ==
    /\ exitCode = <<0>> <=> pc = "done"
    /\ exitCode = <<1>> <=> pc = "exit"
    /\ exitCode = <<1>> <=> error # "none"
    /\ exitCode \in {NoInt, <<0>>, <<1>>}
    /\ pc = "done" =>
          /\ ~ConfigRejected /\ Imported /\ TokenReturned
          /\ lastReq.status = 200
          /\ summary # <<>>
    /\ ConfigRejected /\ pc # "import" => exitCode = <<1>>
    /\ flow = "no_user_code" => exitCode = <<1>>
    /\ pc # "check" /\ result = "error" => exitCode = <<1>>
    /\ lastReq.status \notin {0, 200, 429} => exitCode = <<1>>

\* a run that ended normally without a match, after messages were scanned
C12_Witness ==
    /\ pc = "done" /\ exitCode = <<0>>
    /\ matches = <<>> /\ scanned > 0

\* a value no scan can run with: a text int() rejects, or a cap below 1
InvalidValue(k) ==
    \/ Rejected(environ[k])
    \/ /\ k \in {"MAX_SCAN", "MAX_RESULTS"}
       /\ environ[k].kind = "int"
       /\ environ[k].n < 1

\* C13: with DAYS_BACK, MAX_SCAN or MAX_RESULTS set to an invalid value the
\* process fails before any authentication or mailbox request, and no
\* invalid value reaches a running scan; unset variables take the defaults
\* 5, 100 and 100.
C13_ConfigFailFast ==
    /\ (\E k \in DOMAIN environ : InvalidValue(k)) =>
          /\ pc \in {"import", "exit"}
          /\ cache = "none" /\ ~TokenReturned /\ lastReq = NoRequest
    /\ Imported =>
          /\ environ.DAYS_BACK = EnvUnset => DAYS_BACK = 5
          /\ environ.MAX_SCAN = EnvUnset => MAX_SCAN = 100
          /\ environ.MAX_RESULTS = EnvUnset => MAX_RESULTS = 100

\* the scan has begun: the counters of lines 125-126 exist
Scanning == pc \in {"request", "items", "finish", "done"} \/ lastReq # NoRequest

\* C14: once scanned >= MAX_SCAN or len(matches) >= MAX_RESULTS holds, no
\* further mailbox request is issued for the rest of the run, whether or
\* not the last response carried a continuation link.
C14_NoRequestAfterStop ==
    [][Scanning /\ StopCond(scanned, matches) => lastReq' = lastReq]_vars

\* C15: with a valid configuration the import completes without error and
\* defines both matchers, the action matcher and the target matcher, each
\* with at least one alternative, so that main can start.
C15_StartupBuildsMatchers ==
    ~ConfigRejected /\ pc # "import" =>
        /\ PAT_CHANGE # NoPattern /\ PAT_ADDRBANK # NoPattern
        /\ error # "NameError"
        /\ pc = "exit" => cache # "none" \/ TokenReturned

(***************************************************************************)
(* Properties of the counters of the scan.                                 *)
(***************************************************************************)
\* the step receives a successful response
Is200Step == lastReq' # lastReq /\ lastReq'.status = 200

C16_Inv ==
    \* nothing is known before the first success
    /\ first => fp_total_est = NoInt /\ yielded = <<>>
    /\ first_page <=> yielded = <<>>
    \* what main holds is what the generator carries
    /\ ~first_page => ~first /\ total_est = fp_total_est

C16_Step ==
    \* the first success fixes the total, whatever came before it
    /\ Is200Step /\ first =>
          fp_total_est' = data'.count /\ total_est' = data'.count
    \* a later success yields the same total, whatever count it reports
    /\ Is200Step /\ ~first =>
          fp_total_est' = fp_total_est /\ total_est' = total_est
    \* a 429 leaves first and the total alone
    /\ Is429Step =>
          first' = first /\ fp_total_est' = fp_total_est
          /\ total_est' = total_est
    \* and nothing else changes them
    /\ ~first_page => total_est' = total_est
    /\ ~first => ~first' /\ fp_total_est' = fp_total_est

\* C16: every batch fetch_pages yields carries the total the first
\* successful response reported (none if it reported none), whatever later
\* responses report and whatever 429 responses came first; main's
\* total_est is fixed by the first batch and never changes.
C16_TotalTakenOnce == []C16_Inv /\ [][C16_Step]_vars

\* a second page whose response reports a count while the first reported
\* none
C16_Witness ==
    /\ Len(yielded) = 2
    /\ lastReq.status = 200 /\ data.count = <<9>>
    /\ total_est = NoInt /\ fp_total_est = NoInt

C17_Inv ==
    /\ scanned >= 0
    /\ scanned = Len(classified)
    /\ Len(matches) <= scanned
    /\ pc \in {"import", "main", "silent", "device_flow", "exchange",
               "check", "scan"} => scanned = 0

C17_Step ==
    \* one more for a message processed
    /\ classified' # classified =>
          /\ scanned' = scanned + 1
          /\ classified' = Append(classified, page[idx + 1])
    \* and the same for anything else: a 429, a page fetched, an empty page
    /\ classified' = classified => scanned' = scanned
    /\ Is429Step \/ Is200Step \/ idx = Len(page) => scanned' = scanned

\* C17: scanned starts at 0, never decreases, and grows by exactly 1 for
\* each message processed and by nothing else; it equals the number of
\* messages classified so far and is never below len(matches).
C17_ScannedCountsItems == []C17_Inv /\ [][C17_Step]_vars

\* an empty first page, a 429, then a page of two messages of which one is
\* processed and is no match
C17_Witness ==
    /\ Len(yielded) = 2 /\ yielded[1] = <<>> /\ Len(yielded[2]) = 2
    /\ lastReq.status = 200 /\ lastReq.attempt = 2
    /\ pc = "items" /\ idx = 1
    /\ scanned = 1 /\ matches = <<>>

(***************************************************************************)
(* Order of the steps of authentication.                                   *)
(***************************************************************************)
C18_Inv ==
    \* nothing of the device flow before the silent attempt
    /\ pc \in {"import", "main", "silent"} =>
          result = "unset" /\ flow = "unset"
    \* the flow is started only on a silent attempt that gave nothing
    /\ pc = "device_flow" => result = "None" /\ flow = "unset"
    /\ flow # "unset" => result # "unset"
    \* the exchange follows a flow that started and displayed its code
    /\ pc = "exchange" => flow = "user_code" /\ result = "None"
    \* no mailbox request without a token returned
    /\ lastReq # NoRequest \/ pc \in {"scan", "request", "items", "finish",
                                      "done"} => TokenReturned
    /\ error = "RuntimeError" =>
          lastReq = NoRequest /\ writes = 0 /\ hits_csv = None

C18_Step ==
    /\ pc' = "silent" /\ pc # "silent" => pc = "main"
    /\ pc = "silent" /\ pc' # "silent" =>
          (pc' = "device_flow" <=> result' = "None")
    /\ pc' = "device_flow" /\ pc # "device_flow" => pc = "silent"
    /\ flow' # flow /\ flow' # "unset" => pc = "device_flow"
    /\ pc' = "exchange" /\ pc # "exchange" =>
          pc = "device_flow" /\ flow' = "user_code"
    /\ pc = "exchange" /\ pc' # "exchange" =>
          result' \in {"token", "error"} /\ pc' = "check"
    /\ lastReq' # lastReq => TokenReturned /\ lastReq'.auth = "access_token"

\* C18: the silent acquisition comes first; the device flow is initiated
\* exactly when it yields nothing; the code exchange follows only a flow
\* that started and displayed its code; no mailbox request is issued unless
\* get_token returned a token, and an authentication failure ends the run
\* without a request and without a CSV file.
C18_AuthOrder == []C18_Inv /\ [][C18_Step]_vars

\* the code exchange about to run: the silent attempt over a loaded cache
\* yielded nothing and the flow started with a user code
C18_Witness ==
    /\ pc = "exchange" /\ cache = "loaded"
    /\ result = "None" /\ flow = "user_code"
    /\ lastReq = NoRequest

\* get_token is running
InGetToken == pc \in {"silent", "device_flow", "exchange", "check"}

C19_Inv ==
    \* only a file that deserializes fills the cache
    /\ InGetToken => (cache = "loaded" <=> cacheFile = "valid")
    /\ InGetToken /\ cacheFile # "valid" => cache = "empty"
    \* the load itself fails nothing
    /\ pc \in {"main", "silent"} => error = "none"
    \* with an empty cache the result is the one of the device flow
    /\ pc = "check" /\ cache = "empty" => flow = "user_code"

C19_Step ==
    /\ pc = "main" /\ pc' # "main" =>
          pc' = "silent" /\ error' = "none" /\ cacheFile' = cacheFile
    \* an empty cache: the silent attempt yields nothing, the flow starts
    /\ pc = "silent" /\ cache = "empty" /\ pc' # "silent" =>
          result' = "None" /\ pc' = "device_flow"
    \* get_token fails by the results of the acquisition alone
    /\ InGetToken /\ error' # "none" =>
          \/ pc = "device_flow" /\ flow' = "no_user_code"
          \/ pc = "check" /\ result # "token"
    /\ pc = "check" /\ result = "token" /\ pc' # "check" => TokenReturned'

PageRepeated ==
    /\ pc = "request"
    /\ url.link
    /\ lastReq' = Request(200, 0)
    /\ data' = [nextLink |-> url, count |-> NoInt]
    /\ fp_total_est' = IF first THEN NoInt ELSE fp_total_est
    /\ first' = FALSE
    /\ fp_pc' = "suspended"
    /\ page' = <<>> /\ idx' = 0
    /\ total_est' = IF first_page THEN fp_total_est' ELSE total_est
    /\ first_page' = FALSE
    /\ pc' = "items"
    /\ UNCHANGED <<envVars, globalVars, exitCode, error, tokenVars, url,
                   params, collection, scanned, matches, outVars, histVars,
                   call>>

\* a run with the default configuration and no cache file
InitLoop == Init({NoEnviron}, {BoundTo(NoPhrases)}, {"missing"}, {NoCall})

NextLoop == Next \/ PageRepeated

\* the steps the program takes by itself
ProgramSteps ==
    ModuleImport \/ LoadCache \/ ReturnToken \/ StartScan \/ EndOfPage \/ Finish

\* the calls of get_token into the identity service, each of which returns
AuthReturns == AcquireSilent \/ InitiateDeviceFlow \/ AcquireByDeviceFlow

\* the answers of the mailbox to the request of line 101
ServerResponds == RateLimited \/ FetchFailed \/ PageFetched \/ PageRepeated

\* the loop of lines 140-168 has a message of the page left to process
ItemPending == pc = "items" /\ idx < Len(page)

\* the program keeps running, authentication returns, every request is
\* answered (with 429 at most Max429 times in a row), and the loop over a
\* page, a for loop over a list, does not stall
SpecLoop ==
    /\ InitLoop /\ [][NextLoop]_vars
    /\ WF_vars(ProgramSteps) /\ WF_vars(AuthReturns) /\ WF_vars(ServerResponds)
    /\ []<>~ItemPending

\* the run has ended, normally or by a fatal exit
Terminated == pc \in {"done", "exit"}

\* C20: every run in which authentication returns and every request gets
\* a response other than 429 in the end terminates, whatever pages and
\* continuation links the mailbox supplies.
C20_RunTerminates == <>Terminated

=============================================================================
